---- MODULE Spec2Model ----
(***************************************************************************)
(* State-machine model of the S3 browser component                        *)
(* (src/src/components/s3-browser.tsx): listing, navigation, search,      *)
(* pagination and selection.                                               *)
(*                                                                         *)
(* A JavaScript string is modelled as a sequence of one-character         *)
(* strings, so that startsWith, slice, replace, split, join, includes and *)
(* toLowerCase are computed the way the code computes them.               *)
(***************************************************************************)
EXTENDS Integers, Sequences, FiniteSets, Bags, TLC

\* ------------------------------------------------------------------------
\* Bounds of the model
\* ------------------------------------------------------------------------

\* at most this many ListObjectsV2 requests are outstanding at once
MaxInFlight == 2

\* ------------------------------------------------------------------------
\* JavaScript string primitives
\* ------------------------------------------------------------------------

SLASH == "/"

\* String.prototype.startsWith
StartsWith(s, p) ==
  /\ Len(p) <= Len(s)
  /\ SubSeq(s, 1, Len(p)) = p

\* String.prototype.endsWith
EndsWith(s, p) ==
  /\ Len(p) <= Len(s)
  /\ SubSeq(s, Len(s) - Len(p) + 1, Len(s)) = p

\* String.prototype.slice(n): the string without its first n characters
SliceFrom(s, n) == SubSeq(s, n + 1, Len(s))

\* p occurs in s at position i (1-based)
MatchAt(s, p, i) == \A j \in 1..Len(p) : s[i + j - 1] = p[j]

RECURSIVE IndexFrom(_, _, _)
IndexFrom(s, p, i) ==
  IF i + Len(p) - 1 > Len(s) THEN 0
  ELSE IF MatchAt(s, p, i) THEN i
  ELSE IndexFrom(s, p, i + 1)

\* String.prototype.indexOf, 1-based; 0 when p does not occur in s
IndexOf(s, p) == IndexFrom(s, p, 1)

\* String.prototype.includes
Includes(s, p) == IndexOf(s, p) # 0

\* String.prototype.replace(p, '') with a string pattern: the first occurrence goes
ReplaceFirst(s, p) ==
  LET i == IndexOf(s, p)
  IN  IF i = 0 THEN s
      ELSE SubSeq(s, 1, i - 1) \o SubSeq(s, i + Len(p), Len(s))

\* String.prototype.toLowerCase over the alphabet of the modelled keys
LowerChar(c) ==
  CASE c = "A" -> "a"
    [] c = "B" -> "b"
    [] OTHER   -> c

ToLowerCase(s) == [i \in 1..Len(s) |-> LowerChar(s[i])]

\* s.split('/').filter(Boolean): the non-empty segments between slashes
RECURSIVE SplitSegments(_, _)
SplitSegments(s, cur) ==
  IF s = <<>> THEN (IF cur = <<>> THEN <<>> ELSE <<cur>>)
  ELSE IF Head(s) = SLASH
       THEN (IF cur = <<>> THEN <<>> ELSE <<cur>>) \o SplitSegments(Tail(s), <<>>)
       ELSE SplitSegments(Tail(s), Append(cur, Head(s)))

\* Array.prototype.join('/')
RECURSIVE JoinSlash(_)
JoinSlash(parts) ==
  IF parts = <<>> THEN <<>>
  ELSE IF Len(parts) = 1 THEN parts[1]
  ELSE parts[1] \o <<SLASH>> \o JoinSlash(Tail(parts))

\* Array.prototype.slice(start, end) with 0-based, end-exclusive indices
ArraySlice(seq, start, end) ==
  LET lo == IF start > Len(seq) THEN Len(seq) ELSE start
      hi == IF end > Len(seq) THEN Len(seq) ELSE end
  IN  IF hi <= lo THEN <<>> ELSE SubSeq(seq, lo + 1, hi)

\* Math.ceil(n / d) for n >= 0, d > 0
Ceil(n, d) == (n + d - 1) \div d

\* ------------------------------------------------------------------------
\* The bucket behind the store client
\* ------------------------------------------------------------------------

Digit == <<"0", "1", "2", "3", "4", "5", "6", "7", "8", "9">>

\* Every object the bucket can hold, in the key order S3 lists them in.
\* "d/" is a zero-byte folder placeholder, "d/e0" an empty object, "d/x/" a
\* placeholder that carries bytes; "d/" holds the folder "d/x/" and twelve
\* non-empty files, of which "d/b0" comes and goes; "d/x//z" is a key with an
\* empty path segment, which S3 lists under the common prefix "d/x//".
AllObjects ==
  << [Key |-> <<"d", "/">>, Size |-> 0],
     [Key |-> <<"d", "/", "A", "b">>, Size |-> 100] >>
  \o [i \in 1..10 |-> [Key |-> <<"d", "/", "a", Digit[i]>>, Size |-> 100 * (i + 1)]]
  \o << [Key |-> <<"d", "/", "b", "0">>, Size |-> 1200],
        [Key |-> <<"d", "/", "e", "0">>, Size |-> 0],
        [Key |-> <<"d", "/", "x", "/">>, Size |-> 5],
        [Key |-> <<"d", "/", "x", "/", "/", "z">>, Size |-> 4],
        [Key |-> <<"d", "/", "x", "/", "a", "B">>, Size |-> 7],
        [Key |-> <<"d", "/", "x", "/", "y", "/", "A", "b">>, Size |-> 9],
        [Key |-> <<"t">>, Size |-> 3] >>

\* the batches of objects an upload or another client puts, and deletes again,
\* while the session runs
VolatileBatches ==
  { {i \in DOMAIN AllObjects : AllObjects[i].Key \in { <<"d", "/", "b", "0">> }} }

\* the rows whose checkbox the user ticks or clears one by one
TickedKeys ==
  { <<"d", "/", "A", "b">>,
    <<"d", "/", "x", "/", "a", "B">>, <<"d", "/", "x", "/", "y", "/">> }

\* the values of config.folder a session is opened with
ConfigFolders == { <<>>, <<"d">> }

\* more values of config.folder: with the "/" at the end already, with two, and
\* of a folder the bucket does not hold
RootConfigFolders ==
  { <<>>, <<"d">>, <<"d", "/">>, <<"d", "/", "x">>, <<"d", "/", "x", "/", "/">>, <<"q">> }

\* what the user types into the search box
Queries == { <<>>, <<"A">>, <<"x", "y">> }

\* the values the user picks in the items-per-page control (it offers 10, 25, 50
\* and 100; with at most thirteen items 50 and 100 show what 25 shows)
PageSizes == {10, 25}

\* the objects of bucket b (a set of indices of AllObjects), in listing order
ObjectsOf(b) == SelectSeq(AllObjects, LAMBDA o : \E i \in b : AllObjects[i] = o)

\* the common prefix a key is rolled up into under Delimiter "/", <<>> if none
RollUp(key, p) ==
  LET rest == SliceFrom(key, Len(p))
      d    == IndexOf(rest, <<SLASH>>)
  IN  IF d = 0 THEN <<>> ELSE p \o SubSeq(rest, 1, d)

RECURSIVE CommonPrefixesOf(_, _, _)
CommonPrefixesOf(objs, p, seen) ==
  IF objs = <<>> THEN <<>>
  ELSE LET cp == RollUp(Head(objs).Key, p)
       IN  IF cp = <<>> \/ cp \in seen
           THEN CommonPrefixesOf(Tail(objs), p, seen)
           ELSE <<[Prefix |-> cp]>> \o CommonPrefixesOf(Tail(objs), p, seen \cup {cp})

\* the response of ListObjectsV2Command({Bucket, Prefix: p, Delimiter: "/"})
ListObjectsV2(b, p) ==
  LET under == SelectSeq(ObjectsOf(b), LAMBDA o : StartsWith(o.Key, p))
  IN  [ CommonPrefixes |-> CommonPrefixesOf(under, p, {}),
        Contents       |-> SelectSeq(under, LAMBDA o : RollUp(o.Key, p) = <<>>) ]

\* ------------------------------------------------------------------------
\* Items
\* ------------------------------------------------------------------------

FolderItem(p) == [type |-> "folder", Prefix |-> p.Prefix]

FileItem(c) == [type |-> "file", Key |-> c.Key, Size |-> c.Size]

\* item.type === 'folder' ? item.Prefix : item.Key
ItemKey(item) == IF item.type = "folder" THEN item.Prefix ELSE item.Key

\* FetchedItems without the Size > 0 test
FetchedItems_KeepsEmpty(response, currentPrefix) ==
  LET kept    == SelectSeq(response.Contents, LAMBDA c : c.Key # currentPrefix)
      folders == [i \in DOMAIN response.CommonPrefixes |->
                    FolderItem(response.CommonPrefixes[i])]
      files   == [i \in DOMAIN kept |-> FileItem(kept[i])]
  IN  folders \o files

\* FetchedItems with the files in front of the folders
FetchedItems_FilesFirst(response, currentPrefix) ==
  LET kept    == SelectSeq(response.Contents,
                           LAMBDA c : c.Key # currentPrefix /\ c.Size > 0)
      folders == [i \in DOMAIN response.CommonPrefixes |->
                    FolderItem(response.CommonPrefixes[i])]
      files   == [i \in DOMAIN kept |-> FileItem(kept[i])]
  IN  files \o folders

\* the array fetchItems hands to setItems for a response to a listing of currentPrefix
FetchedItems(response, currentPrefix) ==
  LET kept    == SelectSeq(response.Contents,
                           LAMBDA c : c.Key # currentPrefix /\ c.Size > 0)
      folders == [i \in DOMAIN response.CommonPrefixes |->
                    FolderItem(response.CommonPrefixes[i])]
      files   == [i \in DOMAIN kept |-> FileItem(kept[i])]
  IN  folders \o files

\* RootFolder appending "/" to every non-empty folder
RootFolder_AlwaysAppends(folder) ==
  IF folder = <<>> THEN <<>> ELSE folder \o <<SLASH>>

\* rootFolder: config.folder normalised to end with "/"
RootFolder(folder) ==
  IF folder = <<>> THEN <<>>
  ELSE IF EndsWith(folder, <<SLASH>>) THEN folder ELSE folder \o <<SLASH>>

\* ------------------------------------------------------------------------
\* State of one mounted S3Browser
\* ------------------------------------------------------------------------

VARIABLES
  configFolder,   \* config.folder, fixed while the browser is mounted
  prefix,         \* useState(rootFolder)
  items,          \* useState<S3Item[]>([])
  isLoading,      \* useState(true)
  searchQuery,    \* useState("")
  selectedKeys,   \* useState<Set<string>>(new Set())
  currentPage,    \* useState(1)
  itemsPerPage,   \* useState(10)
  inflight,       \* the bag of the currentPrefix of every fetchItems call awaiting s3Client.send
  connected,      \* FALSE once fetchItems has called onDisconnect
  bucket,         \* the objects in the bucket (indices of AllObjects)
  itemsPrefix,    \* the currentPrefix of the fetchItems call that last ran setItems
  isDownloading,  \* useState(false)
  exportRequest,  \* itemsToDownload of the handleDownloadSelected call awaiting getItemsAsZip
  exportEvent     \* what the step just taken did on the export path (link, toast)

\* ------------------------------------------------------------------------
\* State of the providers around every page: layout.tsx nests UserProvider,
\* AuthProvider and BucketProvider in this order
\* ------------------------------------------------------------------------

VARIABLES
  users,            \* UserProvider: useState<User[]>([])
  usersIsLoaded,    \* UserProvider: isLoaded, useState(false)
  storedUsers,      \* localStorage item 's3-users'
  user,             \* AuthProvider: useState<User | null>(null)
  isAuthenticated,  \* AuthProvider: useState(false)
  authIsLoading,    \* AuthProvider: isLoading, useState(true)
  storedUser,       \* localStorage item 's3-user'
  allBuckets,       \* BucketProvider: useState<Bucket[]>([])
  selectedBucket,   \* BucketProvider: useState<Bucket | null>(null)
  bucketsIsLoaded,  \* BucketProvider: isLoaded, useState(false)
  storedBuckets,    \* localStorage item 's3-buckets'
  commit            \* which effects of the providers are still to run

browserVars == << configFolder, prefix, items, isLoading, searchQuery, selectedKeys,
                  currentPage, itemsPerPage, inflight, connected, bucket,
                  itemsPrefix, isDownloading, exportRequest, exportEvent >>

sessionVars == << users, usersIsLoaded, storedUsers, user, isAuthenticated,
                  authIsLoading, storedUser, allBuckets, selectedBucket,
                  bucketsIsLoaded, storedBuckets, commit >>

vars == << browserVars, sessionVars >>

\* itemsPrefix before any listing has completed
NoListing == <<"?">>

rootFolder == RootFolder(configFolder)

\* exportRequest while no getItemsAsZip call is outstanding
NoExport == << [key |-> <<"?">>, type |-> "none"] >>

\* kind: "none" (the step was no step of handleDownloadSelected), "returned" (it
\* returned at its first line), "requested" (it reached its await), "completed"
\* (the toast "Download Started") or "failed" (the toast "Download Failed");
\* delivered: the link to the archive was clicked; itemCount: the number in the toast
ExportEvent(kind, delivered, itemCount) ==
  [kind |-> kind, delivered |-> delivered, itemCount |-> itemCount]

NoEvent == ExportEvent("none", FALSE, 0)

\* a step that is no step of handleDownloadSelected
NoExportStep ==
  /\ exportEvent' = NoEvent
  /\ UNCHANGED << isDownloading, exportRequest >>

\* ------------------------------------------------------------------------
\* Users, sessions and buckets held by the providers
\* ------------------------------------------------------------------------

\* bounds of the provider sessions
MaxUsers == 3
MaxBuckets == 2

\* a value that may be null (a React state) or absent (a localStorage item)
Null == <<>>
Some(value) == << value >>

User(username, password) == [username |-> username, password |-> password]

defaultUsers == << User("admin", "s3brows3r") >>

\* what is typed into the user and login forms
Usernames == { "admin", "bob", "" }
Passwords == { "s3brows3r", "pw" }

\* a bucket configuration: id, name and the optional owner
Bucket(id, name, owner) == [id |-> id, name |-> name, owner |-> owner]

BucketIds == 1..MaxBuckets
BucketNames == { "n1", "n2" }

\* what localStorage holds when the page is opened: nothing, a list written by
\* an earlier visit, a list from before the admin user existed
StoredUsersChoices ==
  { Null,
    Some(<< User("admin", "s3brows3r"), User("bob", "pw") >>),
    Some(<< User("bob", "pw") >>) }

\* no session, the session of admin, the session of bob, a session whose
\* password is not bob's
StoredUserChoices ==
  { Null,
    Some(User("admin", "s3brows3r")),
    Some(User("bob", "pw")),
    Some(User("bob", "s3brows3r")) }

\* no list, a bucket saved before buckets had owners, a bucket of bob
StoredBucketsChoices ==
  { Null,
    Some(<< Bucket(1, "n1", Null) >>),
    Some(<< Bucket(1, "n1", Some("bob")) >>) }

FirstOf(indices) == CHOOSE i \in indices : \A j \in indices : i <= j

\* users.find(u => u.username === username)
FindUser(list, username) ==
  LET hits == {i \in DOMAIN list : list[i].username = username}
  IN  IF hits = {} THEN Null ELSE Some(list[FirstOf(hits)])

ValidateUser(list, username, pass) ==
  LET found == FindUser(list, username)
  IN  found # Null /\ found[1].password = pass

HasUser(list, username) == \E i \in DOMAIN list : list[i].username = username

NotAdmin(u) == u.username # "admin"

\* the list the load effect of UserProvider passes to setUsers
LoadUsers(stored) ==
  IF stored = Null THEN defaultUsers
  ELSE IF ~HasUser(stored[1], "admin")
       THEN defaultUsers \o SelectSeq(stored[1], NotAdmin)
       ELSE stored[1]

\* if (b.owner): an owner that is neither undefined nor the empty string
HasOwner(b) == b.owner # Null /\ b.owner[1] # ""

\* the filter of userBuckets for the user who is logged in
VisibleTo(b, username) ==
  IF HasOwner(b) THEN b.owner[1] = username
  ELSE username = "admin"

RECURSIVE UserBuckets(_, _)
UserBuckets(all, who) ==
  IF who = Null \/ all = <<>> THEN <<>>
  ELSE IF VisibleTo(Head(all), who[1].username)
       THEN << Head(all) >> \o UserBuckets(Tail(all), who)
       ELSE UserBuckets(Tail(all), who)

userBuckets == UserBuckets(allBuckets, user)

BucketIdsOf(list) == {list[i].id : i \in DOMAIN list}

\* the effect that deselects a bucket that is not in the user's list
DeselectEffect(selected, list) ==
  IF selected # Null /\ selected[1].id \notin BucketIdsOf(list) THEN Null ELSE selected

\* the providers while a browser is shown: admin is logged in and has selected
\* the one bucket
SignedIn ==
  /\ users = defaultUsers
  /\ usersIsLoaded = TRUE
  /\ storedUsers = Some(defaultUsers)
  /\ user = Some(defaultUsers[1])
  /\ isAuthenticated = TRUE
  /\ authIsLoading = FALSE
  /\ storedUser = Some(defaultUsers[1])
  /\ allBuckets = << Bucket(1, "n1", Some("admin")) >>
  /\ selectedBucket = Some(Bucket(1, "n1", Some("admin")))
  /\ bucketsIsLoaded = TRUE
  /\ storedBuckets = Some(<< Bucket(1, "n1", Some("admin")) >>)
  /\ commit = "ready"

\* ------------------------------------------------------------------------
\* Values derived on every render
\* ------------------------------------------------------------------------

relativePrefix ==
  IF StartsWith(prefix, rootFolder) THEN SliceFrom(prefix, Len(rootFolder)) ELSE prefix

breadcrumbParts == << <<"h", "o", "m", "e">> >> \o SplitSegments(relativePrefix, <<>>)

\* fullPath without the root folder in front
fullPath_NoRoot(index) ==
  IF index = 0 THEN <<>>
  ELSE JoinSlash(SubSeq(breadcrumbParts, 2, index + 1)) \o <<SLASH>>

\* fullPath of the breadcrumb at 0-based index
fullPath(index) ==
  LET relativePath ==
        IF index = 0 THEN <<>>
        ELSE JoinSlash(SubSeq(breadcrumbParts, 2, index + 1)) \o <<SLASH>>
  IN  rootFolder \o relativePath

\* the name an item is searched (and shown) by
DisplayName(item, pfx) ==
  IF item.type = "folder"
  THEN ReplaceFirst(ReplaceFirst(item.Prefix, pfx), <<SLASH>>)
  ELSE ReplaceFirst(item.Key, pfx)

FilterItems(its, query, pfx) ==
  IF query = <<>> THEN its
  ELSE LET q == ToLowerCase(query)
       IN  SelectSeq(its, LAMBDA item : Includes(ToLowerCase(DisplayName(item, pfx)), q))

filteredItems == FilterItems(items, searchQuery, prefix)

\* TotalPages rounding down
TotalPages_Floor(n, perPage) == n \div perPage

\* Math.ceil(filteredItems.length / itemsPerPage)
TotalPages(n, perPage) == Ceil(n, perPage)

totalPages == TotalPages(Len(filteredItems), itemsPerPage)

\* PageSlice starting one page late
PageSlice_OffByOne(list, page, perPage) ==
  LET startIndex == page * perPage
      endIndex   == startIndex + perPage
  IN  ArraySlice(list, startIndex, endIndex)

\* filteredItems.slice(startIndex, endIndex) for a page number
PageSlice(list, page, perPage) ==
  LET startIndex == (page - 1) * perPage
      endIndex   == startIndex + perPage
  IN  ArraySlice(list, startIndex, endIndex)

paginatedItems == PageSlice(filteredItems, currentPage, itemsPerPage)

KeysOf(list) == {ItemKey(list[i]) : i \in DOMAIN list}

\* the rows of the table
VisibleRows == LET page == paginatedItems IN {page[i] : i \in DOMAIN page}

\* AllVisibleSelected without the comparison of the two sizes
AllVisibleSelected_NoSizeCheck(page, selected) ==
  /\ Len(page) > 0
  /\ \A i \in DOMAIN page : ItemKey(page[i]) \in selected

\* areAllVisibleSelected, for a page and a selection
AllVisibleSelected(page, selected) ==
  /\ Len(page) > 0
  /\ Cardinality(selected) = Len(page)
  /\ \A i \in DOMAIN page : ItemKey(page[i]) \in selected

\* isAnyVisibleSelected, for a page and a selection
AnyVisibleSelected(page, selected) ==
  \E i \in DOMAIN page : ItemKey(page[i]) \in selected

areAllVisibleSelected == AllVisibleSelected(paginatedItems, selectedKeys)

isAnyVisibleSelected == AnyVisibleSelected(paginatedItems, selectedKeys)

\* the checked prop of the select-all Checkbox, for a page and a selection
CheckedProp(page, selected) ==
  IF AllVisibleSelected(page, selected) THEN "true"
  ELSE IF AnyVisibleSelected(page, selected) THEN "indeterminate" ELSE "false"

SelectAllChecked == CheckedProp(paginatedItems, selectedKeys)

\* the number of the page link at 0-based position i
PageNum(i) ==
  IF totalPages <= 5 THEN i + 1
  ELSE IF currentPage <= 3 THEN i + 1
  ELSE IF currentPage >= totalPages - 2 THEN totalPages - 4 + i
  ELSE currentPage - 2 + i

Min(a, b) == IF a < b THEN a ELSE b

\* ------------------------------------------------------------------------
\* Effects that run after a render
\* ------------------------------------------------------------------------

\* PageAfterEffect with searchQuery missing from the dependency list
PageAfterEffect_IgnoresQuery(page, newQuery, newPrefix, newPerPage) ==
  IF newPrefix # prefix \/ newPerPage # itemsPerPage THEN 1 ELSE page

\* useEffect(() => setCurrentPage(1), [searchQuery, prefix, itemsPerPage]):
\* the page after a handler that leaves these three values as given
PageAfterEffect(page, newQuery, newPrefix, newPerPage) ==
  IF newQuery # searchQuery \/ newPrefix # prefix \/ newPerPage # itemsPerPage
  THEN 1
  ELSE page

\* fetchItems(currentPrefix) up to its await: setIsLoading(true) and the request
StartFetch(currentPrefix) ==
  /\ BagCardinality(inflight) < MaxInFlight
  /\ isLoading' = TRUE
  /\ inflight' = inflight (+) SetToBag({currentPrefix})

\* useEffect(() => fetchItems(prefix), [prefix, s3Client, fetchItems])
FetchEffect(newPrefix) ==
  IF newPrefix # prefix
  THEN StartFetch(newPrefix)
  ELSE UNCHANGED << isLoading, inflight >>

\* setPrefix(path); setSearchQuery("") and the effects of the render that follows
Navigate(path) ==
  /\ prefix' = path
  /\ searchQuery' = <<>>
  /\ FetchEffect(path)
  /\ currentPage' = PageAfterEffect(currentPage, <<>>, path, itemsPerPage)
  /\ UNCHANGED sessionVars
  /\ UNCHANGED << configFolder, items, selectedKeys, itemsPerPage, connected,
                  bucket, itemsPrefix >>
  /\ NoExportStep

\* ------------------------------------------------------------------------
\* Initial state: mounted, S3 client created, first listing requested
\* ------------------------------------------------------------------------

Init ==
  /\ configFolder \in ConfigFolders
  /\ prefix = rootFolder
  /\ items = <<>>
  /\ isLoading = TRUE
  /\ searchQuery = <<>>
  /\ selectedKeys = {}
  /\ currentPage = 1
  /\ itemsPerPage = 10
  /\ inflight = SetToBag({rootFolder})
  /\ connected = TRUE
  /\ bucket = DOMAIN AllObjects
  /\ itemsPrefix = NoListing
  /\ isDownloading = FALSE
  /\ exportRequest = NoExport
  /\ exportEvent = NoEvent
  /\ SignedIn

\* ------------------------------------------------------------------------
\* fetchItems after its await
\* ------------------------------------------------------------------------

\* ListingSucceeds without setSelectedKeys(new Set())
ListingSucceeds_KeepsSelection(currentPrefix) ==
  /\ connected
  /\ BagIn(currentPrefix, inflight)
  /\ LET response == ListObjectsV2(bucket, currentPrefix)
     IN  items' = FetchedItems(response, currentPrefix)
  /\ itemsPrefix' = currentPrefix
  /\ isLoading' = FALSE
  /\ inflight' = inflight (-) SetToBag({currentPrefix})
  /\ UNCHANGED sessionVars
  /\ UNCHANGED << configFolder, prefix, searchQuery, selectedKeys, currentPage,
                  itemsPerPage, connected, bucket >>
  /\ NoExportStep

\* the outstanding listing of currentPrefix succeeds
ListingSucceeds(currentPrefix) ==
  /\ connected
  /\ BagIn(currentPrefix, inflight)
  /\ LET response == ListObjectsV2(bucket, currentPrefix)
     IN  items' = FetchedItems(response, currentPrefix)
  /\ itemsPrefix' = currentPrefix
  /\ selectedKeys' = {}
  /\ isLoading' = FALSE
  /\ inflight' = inflight (-) SetToBag({currentPrefix})
  /\ UNCHANGED sessionVars
  /\ UNCHANGED << configFolder, prefix, searchQuery, currentPage, itemsPerPage,
                  connected, bucket >>
  /\ NoExportStep

\* ListingFails sending the request again
ListingFails_Retries(currentPrefix) ==
  /\ connected
  /\ BagIn(currentPrefix, inflight)
  /\ connected' = FALSE
  /\ isLoading' = TRUE
  /\ inflight' = inflight
  /\ UNCHANGED sessionVars
  /\ UNCHANGED << configFolder, prefix, items, searchQuery, selectedKeys, currentPage,
                  itemsPerPage, bucket, itemsPrefix >>
  /\ NoExportStep

\* s3Client.send throws: toast, onDisconnect(), setIsLoading(false)
ListingFails(currentPrefix) ==
  /\ connected
  /\ BagIn(currentPrefix, inflight)
  /\ connected' = FALSE
  /\ isLoading' = FALSE
  /\ inflight' = inflight (-) SetToBag({currentPrefix})
  /\ UNCHANGED sessionVars
  /\ UNCHANGED << configFolder, prefix, items, searchQuery, selectedKeys, currentPage,
                  itemsPerPage, bucket, itemsPrefix >>
  /\ NoExportStep

\* ------------------------------------------------------------------------
\* Handlers
\* ------------------------------------------------------------------------

\* handleItemClick without the test of selectedKeys
handleItemClick_OpensSelected(item) ==
  /\ connected
  /\ ~isLoading
  /\ item.type = "folder"
  /\ item.Prefix # <<>>
  /\ item \in VisibleRows
  /\ Navigate(item.Prefix)

\* a click on the row of a folder (a click on a file row opens the details dialog,
\* which is outside this model)
handleItemClick(item) ==
  /\ connected
  /\ ~isLoading
  /\ item.type = "folder"
  /\ item.Prefix # <<>>
  /\ item.Prefix \notin selectedKeys
  /\ item \in VisibleRows
  /\ Navigate(item.Prefix)

\* a click on the breadcrumb at index (the last breadcrumb is no link)
handleBreadcrumbClick(index) ==
  /\ connected
  /\ index \in 0..(Len(breadcrumbParts) - 2)
  /\ Navigate(fullPath(index))

\* handleSelect starting from an empty set when it adds
handleSelect_ReplacesSelection(key, checked) ==
  /\ connected
  /\ ~isLoading
  /\ key \in TickedKeys
  /\ checked = (key \notin selectedKeys)
  /\ key \in KeysOf(paginatedItems)
  /\ selectedKeys' = IF checked THEN {key} ELSE selectedKeys \ {key}
  /\ UNCHANGED sessionVars
  /\ UNCHANGED << configFolder, prefix, items, isLoading, searchQuery, currentPage,
                  itemsPerPage, inflight, connected, bucket, itemsPrefix >>
  /\ NoExportStep

\* the row checkbox of a visible item, ticked or cleared
handleSelect(key, checked) ==
  /\ connected
  /\ ~isLoading
  /\ key \in TickedKeys
  /\ checked = (key \notin selectedKeys)
  /\ key \in KeysOf(paginatedItems)
  /\ selectedKeys' = IF checked THEN selectedKeys \cup {key} ELSE selectedKeys \ {key}
  /\ UNCHANGED sessionVars
  /\ UNCHANGED << configFolder, prefix, items, isLoading, searchQuery, currentPage,
                  itemsPerPage, inflight, connected, bucket, itemsPrefix >>
  /\ NoExportStep

\* handleSelectAll taking the keys of the whole filtered list
handleSelectAll_WholeList(checked) ==
  /\ connected
  /\ ~isLoading
  /\ LET page == paginatedItems
     IN  /\ Len(page) # 0
         /\ selectedKeys' = IF checked THEN KeysOf(filteredItems) ELSE {}
  /\ UNCHANGED sessionVars
  /\ UNCHANGED << configFolder, prefix, items, isLoading, searchQuery, currentPage,
                  itemsPerPage, inflight, connected, bucket, itemsPrefix >>
  /\ NoExportStep

\* handleSelectAll clearing only the keys of the page
handleSelectAll_ClearsPageOnly(checked) ==
  /\ connected
  /\ ~isLoading
  /\ LET page == paginatedItems
     IN  /\ Len(page) # 0
         /\ selectedKeys' = IF checked THEN KeysOf(page) ELSE selectedKeys \ KeysOf(page)
  /\ UNCHANGED sessionVars
  /\ UNCHANGED << configFolder, prefix, items, isLoading, searchQuery, currentPage,
                  itemsPerPage, inflight, connected, bucket, itemsPrefix >>
  /\ NoExportStep

\* onCheckedChange of the select-all checkbox (disabled while the page is empty)
handleSelectAll(checked) ==
  /\ connected
  /\ ~isLoading
  /\ LET page == paginatedItems
     IN  /\ Len(page) # 0
         /\ selectedKeys' = IF checked THEN KeysOf(page) ELSE {}
  /\ UNCHANGED sessionVars
  /\ UNCHANGED << configFolder, prefix, items, isLoading, searchQuery, currentPage,
                  itemsPerPage, inflight, connected, bucket, itemsPrefix >>
  /\ NoExportStep

\* setSearchQuery dropping the selection
setSearchQuery_ClearsSelection(value) ==
  /\ connected
  /\ value \in Queries
  /\ value # searchQuery
  /\ searchQuery' = value
  /\ selectedKeys' = {}
  /\ currentPage' = PageAfterEffect(currentPage, value, prefix, itemsPerPage)
  /\ UNCHANGED sessionVars
  /\ UNCHANGED << configFolder, prefix, items, isLoading, itemsPerPage,
                  inflight, connected, bucket, itemsPrefix >>
  /\ NoExportStep

\* onChange of the search input
setSearchQuery(value) ==
  /\ connected
  /\ value \in Queries
  /\ value # searchQuery
  /\ searchQuery' = value
  /\ currentPage' = PageAfterEffect(currentPage, value, prefix, itemsPerPage)
  /\ UNCHANGED sessionVars
  /\ UNCHANGED << configFolder, prefix, items, isLoading, selectedKeys, itemsPerPage,
                  inflight, connected, bucket, itemsPrefix >>
  /\ NoExportStep

\* onValueChange of the items-per-page select
setItemsPerPage(value) ==
  /\ connected
  /\ Len(filteredItems) > 10
  /\ value \in PageSizes
  /\ value # itemsPerPage
  /\ itemsPerPage' = value
  /\ currentPage' = PageAfterEffect(currentPage, searchQuery, prefix, value)
  /\ UNCHANGED sessionVars
  /\ UNCHANGED << configFolder, prefix, items, isLoading, searchQuery, selectedKeys,
                  inflight, connected, bucket, itemsPrefix >>
  /\ NoExportStep

\* the pagination bar is rendered
PaginationShown ==
  LET n == Len(filteredItems) IN n > 10 /\ TotalPages(n, itemsPerPage) > 1

GoToPage(page) ==
  /\ connected
  /\ PaginationShown
  /\ page # currentPage
  /\ currentPage' = PageAfterEffect(page, searchQuery, prefix, itemsPerPage)
  /\ UNCHANGED sessionVars
  /\ UNCHANGED << configFolder, prefix, items, isLoading, searchQuery, selectedKeys,
                  itemsPerPage, inflight, connected, bucket, itemsPrefix >>
  /\ NoExportStep

PaginationPrevious == currentPage > 1 /\ GoToPage(currentPage - 1)

PaginationNext == currentPage < totalPages /\ GoToPage(currentPage + 1)

PaginationLink(i) == connected /\ i \in 0..(Min(5, totalPages) - 1) /\ GoToPage(PageNum(i))

\* the upload dialog reports completion: the current folder is listed again
handleUploadComplete ==
  /\ connected
  /\ StartFetch(prefix)
  /\ UNCHANGED sessionVars
  /\ UNCHANGED << configFolder, prefix, items, searchQuery, selectedKeys, currentPage,
                  itemsPerPage, connected, bucket, itemsPrefix >>
  /\ NoExportStep

\* ------------------------------------------------------------------------
\* The bucket changes behind the session (an upload, another client)
\* ------------------------------------------------------------------------

BucketChange(batch) ==
  /\ connected
  /\ batch \in VolatileBatches
  /\ bucket' = IF batch \subseteq bucket THEN bucket \ batch ELSE bucket \cup batch
  /\ UNCHANGED sessionVars
  /\ UNCHANGED << configFolder, prefix, items, isLoading, searchQuery, selectedKeys,
                  currentPage, itemsPerPage, inflight, connected, itemsPrefix >>
  /\ NoExportStep

\* ------------------------------------------------------------------------
\* Export of the selection as one archive
\* ------------------------------------------------------------------------

\* the {key, type} entry of an item
DownloadEntry(item) == [key |-> ItemKey(item), type |-> item.type]

\* ItemsToDownload naming every entry a file
ItemsToDownload_AllFiles(its, selected) ==
  LET chosen == SelectSeq(its, LAMBDA item : ItemKey(item) \in selected)
  IN  [i \in DOMAIN chosen |-> [key |-> ItemKey(chosen[i]), type |-> "file"]]

\* itemsToDownload: items.filter(selected).map({key, type})
ItemsToDownload(its, selected) ==
  LET chosen == SelectSeq(its, LAMBDA item : ItemKey(item) \in selected)
  IN  [i \in DOMAIN chosen |-> DownloadEntry(chosen[i])]

\* a click on "Download Selected" (rendered while something is selected, disabled
\* while isDownloading), or a call of the handler with nothing selected, which
\* returns at its first line
handleDownloadSelected ==
  /\ connected
  /\ IF selectedKeys = {}
     THEN /\ exportEvent' = ExportEvent("returned", FALSE, 0)
          /\ UNCHANGED << isDownloading, exportRequest >>
     ELSE /\ ~isDownloading
          /\ isDownloading' = TRUE
          /\ exportRequest' = ItemsToDownload(items, selectedKeys)
          /\ exportEvent' = ExportEvent("requested", FALSE, 0)
  /\ UNCHANGED sessionVars
  /\ UNCHANGED << configFolder, prefix, items, isLoading, searchQuery, selectedKeys,
                  currentPage, itemsPerPage, inflight, connected, bucket, itemsPrefix >>

\* ExportCompletes leaving isDownloading set
ExportCompletes_StaysDownloading ==
  /\ exportRequest # NoExport
  /\ exportEvent' = ExportEvent("completed", TRUE, Len(exportRequest))
  /\ selectedKeys' = {}
  /\ exportRequest' = NoExport
  /\ UNCHANGED sessionVars
  /\ UNCHANGED << configFolder, prefix, items, isLoading, searchQuery, currentPage,
                  itemsPerPage, inflight, connected, bucket, itemsPrefix, isDownloading >>

\* getItemsAsZip resolves: the link to the archive is clicked, the toast
\* "Download Started" counts the items, the selection is cleared
ExportCompletes ==
  /\ exportRequest # NoExport
  /\ exportEvent' = ExportEvent("completed", TRUE, Len(exportRequest))
  /\ selectedKeys' = {}
  /\ isDownloading' = FALSE
  /\ exportRequest' = NoExport
  /\ UNCHANGED sessionVars
  /\ UNCHANGED << configFolder, prefix, items, isLoading, searchQuery, currentPage,
                  itemsPerPage, inflight, connected, bucket, itemsPrefix >>

\* ExportFails clicking the link all the same
ExportFails_Delivers ==
  /\ exportRequest # NoExport
  /\ exportEvent' = ExportEvent("failed", TRUE, 0)
  /\ isDownloading' = FALSE
  /\ exportRequest' = NoExport
  /\ UNCHANGED sessionVars
  /\ UNCHANGED << configFolder, prefix, items, isLoading, searchQuery, selectedKeys,
                  currentPage, itemsPerPage, inflight, connected, bucket, itemsPrefix >>

\* ExportFails clearing the selection as a completed export does
ExportFails_ClearsSelection ==
  /\ exportRequest # NoExport
  /\ exportEvent' = ExportEvent("failed", FALSE, 0)
  /\ selectedKeys' = {}
  /\ isDownloading' = FALSE
  /\ exportRequest' = NoExport
  /\ UNCHANGED sessionVars
  /\ UNCHANGED << configFolder, prefix, items, isLoading, searchQuery,
                  currentPage, itemsPerPage, inflight, connected, bucket, itemsPrefix >>

\* getItemsAsZip rejects: the toast "Download Failed"
ExportFails ==
  /\ exportRequest # NoExport
  /\ exportEvent' = ExportEvent("failed", FALSE, 0)
  /\ isDownloading' = FALSE
  /\ exportRequest' = NoExport
  /\ UNCHANGED sessionVars
  /\ UNCHANGED << configFolder, prefix, items, isLoading, searchQuery, selectedKeys,
                  currentPage, itemsPerPage, inflight, connected, bucket, itemsPrefix >>

Next ==
  \/ \E currentPrefix \in BagToSet(inflight) : ListingSucceeds(currentPrefix)
  \/ \E currentPrefix \in BagToSet(inflight) : ListingFails(currentPrefix)
  \/ \E item \in VisibleRows : handleItemClick(item)
  \/ \E index \in 0..3 : handleBreadcrumbClick(index)
  \/ \E key \in TickedKeys : \E checked \in BOOLEAN : handleSelect(key, checked)
  \/ \E checked \in BOOLEAN : handleSelectAll(checked)
  \/ \E value \in Queries : setSearchQuery(value)
  \/ \E value \in PageSizes : setItemsPerPage(value)
  \/ PaginationPrevious
  \/ PaginationNext
  \/ \E i \in 0..4 : PaginationLink(i)
  \/ handleUploadComplete
  \/ \E batch \in VolatileBatches : BucketChange(batch)

Spec == Init /\ [][Next]_vars

\* A session opened on the folder "d" in which the user browses, selects and
\* exports, the search box and the items-per-page control left alone
InitExport == Init /\ configFolder = <<"d">>

NextExport ==
  \/ \E currentPrefix \in BagToSet(inflight) : ListingSucceeds(currentPrefix)
  \/ \E currentPrefix \in BagToSet(inflight) : ListingFails(currentPrefix)
  \/ \E item \in VisibleRows : handleItemClick(item)
  \/ \E index \in 0..3 : handleBreadcrumbClick(index)
  \/ \E key \in TickedKeys : \E checked \in BOOLEAN : handleSelect(key, checked)
  \/ \E checked \in BOOLEAN : handleSelectAll(checked)
  \/ PaginationPrevious
  \/ PaginationNext
  \/ \E i \in 0..4 : PaginationLink(i)
  \/ handleUploadComplete
  \/ \E batch \in VolatileBatches : BucketChange(batch)
  \/ handleDownloadSelected
  \/ ExportCompletes
  \/ ExportFails

SpecExport == InitExport /\ [][NextExport]_vars

\* Sessions opened on each of RootConfigFolders, in which the user only navigates
InitRoot ==
  /\ configFolder \in RootConfigFolders
  /\ prefix = rootFolder
  /\ items = <<>>
  /\ isLoading = TRUE
  /\ searchQuery = <<>>
  /\ selectedKeys = {}
  /\ currentPage = 1
  /\ itemsPerPage = 10
  /\ inflight = SetToBag({rootFolder})
  /\ connected = TRUE
  /\ bucket = DOMAIN AllObjects
  /\ itemsPrefix = NoListing
  /\ isDownloading = FALSE
  /\ exportRequest = NoExport
  /\ exportEvent = NoEvent
  /\ SignedIn

NextRoot ==
  \/ \E currentPrefix \in BagToSet(inflight) : ListingSucceeds(currentPrefix)
  \/ \E currentPrefix \in BagToSet(inflight) : ListingFails(currentPrefix)
  \/ \E item \in VisibleRows : handleItemClick(item)
  \/ \E index \in 0..3 : handleBreadcrumbClick(index)
  \/ handleUploadComplete
  \/ \E batch \in VolatileBatches : BucketChange(batch)

SpecRoot == InitRoot /\ [][NextRoot]_vars

\* the promise of getItemsAsZip settles: an outstanding export is answered
FairSpecExport == SpecExport /\ WF_vars(ExportCompletes \/ ExportFails)

\* ------------------------------------------------------------------------
\* The providers: effects of the first two commits, then the context functions
\* ------------------------------------------------------------------------

\* the effect of AuthProvider, run with the validateUser of the render it
\* belongs to, which closes over the users of that render
AuthRestoreEffect(renderedUsers) ==
  /\ IF storedUser # Null
     THEN IF ValidateUser(renderedUsers, storedUser[1].username, storedUser[1].password)
          THEN /\ user' = storedUser
               /\ isAuthenticated' = TRUE
               /\ UNCHANGED storedUser
          ELSE /\ storedUser' = Null
               /\ UNCHANGED << user, isAuthenticated >>
     ELSE UNCHANGED << storedUser, user, isAuthenticated >>
  /\ authIsLoading' = FALSE

\* First commit. The effects of a child run before those of its parent:
\* BucketProvider, then AuthProvider, then UserProvider. The save effects see
\* isLoaded = false and write nothing.
BucketMountEffects ==
  /\ commit = "BucketProvider"
  /\ allBuckets' = IF storedBuckets # Null THEN storedBuckets[1] ELSE allBuckets
  /\ bucketsIsLoaded' = TRUE
  /\ selectedBucket' = DeselectEffect(selectedBucket, userBuckets)
  /\ commit' = "AuthProvider"
  /\ UNCHANGED << users, usersIsLoaded, storedUsers, user, isAuthenticated,
                  authIsLoading, storedUser, storedBuckets >>
  /\ UNCHANGED browserVars

AuthMountEffect ==
  /\ commit = "AuthProvider"
  /\ AuthRestoreEffect(users)
  /\ commit' = "UserProvider"
  /\ UNCHANGED << users, usersIsLoaded, storedUsers, allBuckets, selectedBucket,
                  bucketsIsLoaded, storedBuckets >>
  /\ UNCHANGED browserVars

UserMountEffects ==
  /\ commit = "UserProvider"
  /\ users' = LoadUsers(storedUsers)
  /\ usersIsLoaded' = TRUE
  /\ commit' = "rerender"
  /\ UNCHANGED << storedUsers, user, isAuthenticated, authIsLoading, storedUser,
                  allBuckets, selectedBucket, bucketsIsLoaded, storedBuckets >>
  /\ UNCHANGED browserVars

\* Second commit, after the state set by the first: the save effect of
\* BucketProvider, the effect of AuthProvider (validateUser is a new function),
\* the save effect of UserProvider, and the deselect effect once more
RerenderEffects ==
  /\ commit = "rerender"
  /\ storedBuckets' = Some(allBuckets)
  /\ AuthRestoreEffect(users)
  /\ storedUsers' = Some(users)
  /\ selectedBucket' = DeselectEffect(selectedBucket, UserBuckets(allBuckets, user'))
  /\ commit' = "ready"
  /\ UNCHANGED << users, usersIsLoaded, allBuckets, bucketsIsLoaded >>
  /\ UNCHANGED browserVars

login(username, pass) ==
  /\ commit = "ready"
  /\ IF ValidateUser(users, username, pass)
     THEN /\ storedUser' = Some(User(username, pass))
          /\ user' = Some(User(username, pass))
          /\ isAuthenticated' = TRUE
     ELSE UNCHANGED << storedUser, user, isAuthenticated >>
  /\ selectedBucket' = DeselectEffect(selectedBucket, UserBuckets(allBuckets, user'))
  /\ UNCHANGED << users, usersIsLoaded, storedUsers, authIsLoading, allBuckets,
                  bucketsIsLoaded, storedBuckets, commit >>
  /\ UNCHANGED browserVars

logout ==
  /\ commit = "ready"
  /\ storedUser' = Null
  /\ isAuthenticated' = FALSE
  /\ user' = Null
  /\ selectedBucket' = DeselectEffect(selectedBucket, UserBuckets(allBuckets, user'))
  /\ UNCHANGED << users, usersIsLoaded, storedUsers, authIsLoading, allBuckets,
                  bucketsIsLoaded, storedBuckets, commit >>
  /\ UNCHANGED browserVars

\* what follows every setUsers: the save effect of UserProvider, the effect of
\* AuthProvider with the new validateUser, the deselect effect of BucketProvider
UsersChanged ==
  /\ storedUsers' = Some(users')
  /\ AuthRestoreEffect(users')
  /\ selectedBucket' = DeselectEffect(selectedBucket, UserBuckets(allBuckets, user'))
  /\ UNCHANGED << usersIsLoaded, allBuckets, bucketsIsLoaded, storedBuckets, commit >>
  /\ UNCHANGED browserVars

addUser(username, pass) ==
  /\ commit = "ready"
  /\ Len(users) < MaxUsers
  /\ users' = IF HasUser(users, username) THEN users
              ELSE Append(users, User(username, pass))
  /\ UsersChanged

updateUser(username, pass) ==
  /\ commit = "ready"
  /\ users' = [i \in DOMAIN users |->
                 IF users[i].username = username
                 THEN [users[i] EXCEPT !.password = pass] ELSE users[i]]
  /\ UsersChanged

RECURSIVE WithoutUser(_, _)
WithoutUser(list, username) ==
  IF list = <<>> THEN <<>>
  ELSE IF Head(list).username # username
       THEN << Head(list) >> \o WithoutUser(Tail(list), username)
       ELSE WithoutUser(Tail(list), username)

deleteUser_DeletesAdmin(username) ==
  /\ commit = "ready"
  /\ users' = WithoutUser(users, username)
  /\ UsersChanged

deleteUser(username) ==
  /\ commit = "ready"
  /\ users' = IF username = "admin" THEN users ELSE WithoutUser(users, username)
  /\ UsersChanged

\* what follows every setAllBuckets: the save effect and the deselect effect
BucketsChanged ==
  /\ storedBuckets' = Some(allBuckets')
  /\ UNCHANGED << users, usersIsLoaded, storedUsers, user, isAuthenticated,
                  authIsLoading, storedUser, bucketsIsLoaded, commit >>
  /\ UNCHANGED browserVars

\* crypto.randomUUID() is an id no bucket has
addBucket(name) ==
  /\ commit = "ready"
  /\ Len(allBuckets) < MaxBuckets
  /\ IF user = Null
     THEN UNCHANGED allBuckets
     ELSE \E id \in BucketIds \ BucketIdsOf(allBuckets) :
            allBuckets' = Append(allBuckets, Bucket(id, name, Some(user[1].username)))
  /\ selectedBucket' = DeselectEffect(selectedBucket, UserBuckets(allBuckets', user))
  /\ BucketsChanged

updateBucket(id, name) ==
  /\ commit = "ready"
  /\ allBuckets' = [i \in DOMAIN allBuckets |->
                      IF allBuckets[i].id = id
                      THEN Bucket(id, name, allBuckets[i].owner) ELSE allBuckets[i]]
  /\ selectedBucket' = DeselectEffect(selectedBucket, UserBuckets(allBuckets', user))
  /\ BucketsChanged

RECURSIVE WithoutBucket(_, _)
WithoutBucket(list, id) ==
  IF list = <<>> THEN <<>>
  ELSE IF Head(list).id # id
       THEN << Head(list) >> \o WithoutBucket(Tail(list), id)
       ELSE WithoutBucket(Tail(list), id)

deleteBucket(id) ==
  /\ commit = "ready"
  /\ allBuckets' = WithoutBucket(allBuckets, id)
  /\ selectedBucket' =
       DeselectEffect(IF selectedBucket # Null /\ selectedBucket[1].id = id
                      THEN Null ELSE selectedBucket,
                      UserBuckets(allBuckets', user))
  /\ BucketsChanged

\* the setter of the context, called with null or with a bucket object
setSelectedBucket(value) ==
  /\ commit = "ready"
  /\ selectedBucket' = DeselectEffect(value, userBuckets)
  /\ UNCHANGED << users, usersIsLoaded, storedUsers, user, isAuthenticated,
                  authIsLoading, storedUser, allBuckets, bucketsIsLoaded,
                  storedBuckets, commit >>
  /\ UNCHANGED browserVars

\* the page is opened: the providers have rendered once, no effect has run, and
\* no browser is shown
InitSession ==
  /\ users = <<>>
  /\ usersIsLoaded = FALSE
  /\ storedUsers \in StoredUsersChoices
  /\ user = Null
  /\ isAuthenticated = FALSE
  /\ authIsLoading = TRUE
  /\ storedUser \in StoredUserChoices
  /\ allBuckets = <<>>
  /\ selectedBucket = Null
  /\ bucketsIsLoaded = FALSE
  /\ storedBuckets \in StoredBucketsChoices
  /\ commit = "BucketProvider"
  /\ configFolder = <<>>
  /\ prefix = <<>>
  /\ items = <<>>
  /\ isLoading = TRUE
  /\ searchQuery = <<>>
  /\ selectedKeys = {}
  /\ currentPage = 1
  /\ itemsPerPage = 10
  /\ inflight = EmptyBag
  /\ connected = FALSE
  /\ bucket = DOMAIN AllObjects
  /\ itemsPrefix = NoListing
  /\ isDownloading = FALSE
  /\ exportRequest = NoExport
  /\ exportEvent = NoEvent

NextSession ==
  \/ BucketMountEffects
  \/ AuthMountEffect
  \/ UserMountEffects
  \/ RerenderEffects
  \/ \E username \in Usernames : \E pass \in Passwords : login(username, pass)
  \/ logout
  \/ \E username \in Usernames : \E pass \in Passwords : addUser(username, pass)
  \/ \E username \in Usernames : \E pass \in Passwords : updateUser(username, pass)
  \/ \E username \in Usernames : deleteUser(username)
  \/ \E name \in BucketNames : addBucket(name)
  \/ \E id \in BucketIds : \E name \in BucketNames : updateBucket(id, name)
  \/ \E id \in BucketIds : deleteBucket(id)
  \/ \E value \in {Null} \cup {Some(allBuckets[i]) : i \in DOMAIN allBuckets} :
       setSelectedBucket(value)

SpecSession == InitSession /\ [][NextSession]_vars

\* ------------------------------------------------------------------------
\* Properties
\* ------------------------------------------------------------------------

Max(a, b) == IF a > b THEN a ELSE b

\* C1: in every reachable state, whatever folder clicks and breadcrumb jumps were
\* made and whatever listings are outstanding or completed out of order, prefix
\* has rootFolder as a string prefix.
C1_PrefixUnderRoot == StartsWith(prefix, rootFolder)

\* C1 witness: two levels below a non-empty root, reached while two listings are
\* still outstanding
C1_Witness ==
  /\ rootFolder = <<"d", "/">>
  /\ prefix = <<"d", "/", "x", "/", "y", "/">>
  /\ BagCardinality(inflight) = 2
  /\ StartsWith(prefix, rootFolder)

\* C2 (the claim as stated): once no listing is outstanding, the stored item list
\* is the listing of the prefix navigated to last, because a response for another
\* prefix is discarded.
C2_LastNavigationWins ==
  (connected /\ inflight = EmptyBag /\ itemsPrefix # NoListing) => itemsPrefix = prefix

\* C3: a step in which an outstanding listing completes successfully (one request
\* fewer, still connected) ends with an empty selection.
C3_ListingClearsSelection ==
  [][ (connected' /\ BagCardinality(inflight') < BagCardinality(inflight))
        => selectedKeys' = {} ]_vars

\* C3 witness: keys are selected while a listing is outstanding
C3_Witness ==
  /\ connected
  /\ selectedKeys # {}
  /\ inflight # EmptyBag

\* C4 (the claim as stated, with totalPages read as max(1, ceil(n / pageSize))):
\* in every reachable state 1 <= currentPage <= totalPages.
C4_PageInRange == 1 <= currentPage /\ currentPage <= Max(1, totalPages)

\* C5: a step that changes searchQuery or itemsPerPage ends on page 1.
C5_ChangeResetsPage ==
  [][ (searchQuery' # searchQuery \/ itemsPerPage' # itemsPerPage)
        => currentPage' = 1 ]_vars

\* C5 witness: the user is on page 2 with the search box and the items-per-page
\* control on screen
C5_Witness ==
  /\ connected
  /\ currentPage = 2
  /\ Len(filteredItems) > 10

\* C6: a step of handleSelectAll(true) (the page is not empty) ends with
\* selectedKeys holding exactly the keys of the rows of the current page, and
\* with the select-all checkbox checked.
C6_SelectAllTakesThePage ==
  [][ handleSelectAll(TRUE)
        => LET pageAfter == PageSlice(FilterItems(items', searchQuery', prefix'),
                                      currentPage', itemsPerPage')
           IN  /\ selectedKeys' = KeysOf(pageAfter)
               /\ CheckedProp(pageAfter, selectedKeys') = "true" ]_vars

\* C6 witness: page 2 of 2 with both of its rows selected, which no row checkbox
\* of TickedKeys can produce, while the filtered list holds more
C6_Witness ==
  /\ currentPage = 2
  /\ Len(paginatedItems) = 2
  /\ Len(filteredItems) = 12
  /\ selectedKeys = KeysOf(paginatedItems)
  /\ selectedKeys \cap TickedKeys = {}

\* the tri-state of the claim: all, some or none of the visible keys are selected
VisibleSelectionState(visible, selected) ==
  IF visible # {} /\ visible \subseteq selected THEN "true"
  ELSE IF visible \cap selected # {} THEN "indeterminate"
  ELSE "false"

\* C7 (the claim as stated): the checkbox shows all iff the page is not empty and
\* every visible key is selected, some iff at least one but not all are, none
\* otherwise; selected keys that are not on the page make no difference.
C7_TriStateOfVisibleKeys ==
  SelectAllChecked = VisibleSelectionState(KeysOf(paginatedItems), selectedKeys)

\* C7 (amended): the checkbox shows all iff the page is not empty and selectedKeys
\* is exactly the set of visible keys; some iff a visible key is selected and
\* selectedKeys is not exactly the visible keys; none iff no visible key is selected.
C7_TriStateOfExactSelection ==
  LET visible == KeysOf(paginatedItems)
  IN  /\ (SelectAllChecked = "true") <=> (visible # {} /\ selectedKeys = visible)
      /\ (SelectAllChecked = "indeterminate")
           <=> (visible \cap selectedKeys # {} /\ selectedKeys # visible)
      /\ (SelectAllChecked = "false") <=> (visible \cap selectedKeys = {})

\* C7 witness: every visible key is selected together with a key that is not on
\* the page, and the checkbox shows some
C7_Witness ==
  LET visible == KeysOf(paginatedItems)
  IN  /\ visible # {}
      /\ visible \subseteq selectedKeys
      /\ selectedKeys # visible
      /\ SelectAllChecked = "indeterminate"

\* the files of a response that the claim keeps: key other than the prefix, size not 0
KeptFiles(response, p) ==
  {c.Key : c \in {response.Contents[i] : i \in DOMAIN response.Contents}} \
  {c.Key : c \in {response.Contents[i] : i \in {j \in DOMAIN response.Contents :
                     response.Contents[j].Key = p \/ response.Contents[j].Size = 0}}}

ItemsMatchResponse(its, response, p) ==
  LET rows == {its[i] : i \in DOMAIN its}
  IN  /\ {r.Prefix : r \in {x \in rows : x.type = "folder"}}
           = {response.CommonPrefixes[i].Prefix : i \in DOMAIN response.CommonPrefixes}
      /\ {r.Key : r \in {x \in rows : x.type = "file"}} = KeptFiles(response, p)
      /\ Cardinality(rows) = Len(its)
      /\ \A r \in rows : r.type \in {"folder", "file"}

\* C8: a step in which the listing of P succeeds stores an item list that holds
\* every common prefix of the response as a folder and, as files, exactly the
\* objects of the response whose key is not P and whose size is not 0, each once.
C8_ListingKeepsAllButPlaceholders ==
  [][ \A p \in BagToSet(inflight) :
        ListingSucceeds(p) => ItemsMatchResponse(items', ListObjectsV2(bucket, p), p) ]_vars

\* C8 witness: the listing of "d/" is stored: the folder "d/x/" and twelve files,
\* without the placeholder "d/" and the empty object "d/e0" the store returned
C8_Witness ==
  /\ itemsPrefix = <<"d", "/">>
  /\ Len(items) = 13
  /\ Len(ListObjectsV2(bucket, itemsPrefix).Contents) = 14
  /\ KeysOf(items) \cap { <<"d", "/">>, <<"d", "/", "e", "0">> } = {}

RECURSIVE PagesConcat(_, _, _)
PagesConcat(list, pages, perPage) ==
  IF pages = 0 THEN <<>>
  ELSE PagesConcat(list, pages - 1, perPage) \o PageSlice(list, pages, perPage)

\* C9: the visible page is the slice [(currentPage-1)*itemsPerPage,
\* currentPage*itemsPerPage) of the filtered list; pages 1..totalPages laid end to
\* end are the filtered list; every page but the last holds itemsPerPage items
\* and the last holds the rest.
C9_PagesPartitionTheList ==
  LET f  == filteredItems
      n  == Len(f)
      tp == TotalPages(n, itemsPerPage)
      lo == (currentPage - 1) * itemsPerPage
  IN  /\ paginatedItems
           = [i \in 1..Max(0, Min(n, lo + itemsPerPage) - lo) |-> f[lo + i]]
      /\ PagesConcat(f, tp, itemsPerPage) = f
      /\ \A k \in 1..(tp - 1) : Len(PageSlice(f, k, itemsPerPage)) = itemsPerPage
      /\ tp >= 1 => Len(PageSlice(f, tp, itemsPerPage)) = n - (tp - 1) * itemsPerPage

\* C9 witness: twelve filtered items at ten per page, page 2 of 2 showing the last two
C9_Witness ==
  /\ Len(filteredItems) = 12
  /\ itemsPerPage = 10
  /\ totalPages = 2
  /\ currentPage = 2
  /\ Len(paginatedItems) = 2
  /\ paginatedItems[2] = filteredItems[12]

\* s without the prefix p it starts with
StripPrefix(s, p) == IF StartsWith(s, p) THEN SliceFrom(s, Len(p)) ELSE s

\* s without its trailing "/"
StripTrailingSlash(s) == IF EndsWith(s, <<SLASH>>) THEN SubSeq(s, 1, Len(s) - 1) ELSE s

\* the display name of the claim
ClaimedName(item, pfx) ==
  IF item.type = "folder"
  THEN StripTrailingSlash(StripPrefix(item.Prefix, pfx))
  ELSE StripPrefix(item.Key, pfx)

\* C10 (the claim as stated): the filtered list is the sub-sequence of the item
\* list, in order, of the items whose display name (the prefix or key without the
\* current folder prefix, a folder's without its trailing "/") contains the
\* search query, case ignored; it is the item list when the query is empty.
C10_FilterByDisplayName ==
  filteredItems
    = SelectSeq(items, LAMBDA item :
        Includes(ToLowerCase(ClaimedName(item, prefix)), ToLowerCase(searchQuery)))

\* the checked prop of the select-all checkbox in the state a step leads to
CheckedPropAfter ==
  CheckedProp(PageSlice(FilterItems(items', searchQuery', prefix'),
                        currentPage', itemsPerPage'),
              selectedKeys')

\* C11: a step of handleSelectAll(false) ends with an empty selection, whatever
\* keys of other pages were selected before it, and with the select-all checkbox
\* showing none.
C11_UnselectAllEmptiesSelection ==
  [][ handleSelectAll(FALSE)
        => (selectedKeys' = {} /\ CheckedPropAfter = "false") ]_vars

\* C11 witness: the table shows a page of which some rows, but not all, are
\* selected, together with a key that is not on the page
C11_Witness ==
  LET visible == KeysOf(paginatedItems)
  IN  /\ connected
      /\ ~isLoading
      /\ visible \cap selectedKeys # {}
      /\ visible \ selectedKeys # {}
      /\ selectedKeys \ visible # {}

\* the position of the item with key k in the item list
PositionOf(its, k) == CHOOSE i \in DOMAIN its : ItemKey(its[i]) = k

\* request is the export request list the claim describes for an item list and a
\* selection
IsExportListOf(request, its, selected) ==
  LET present == selected \cap KeysOf(its)
  IN  /\ {request[i].key : i \in DOMAIN request} = present
      /\ Len(request) = Cardinality(present)
      /\ \A i \in DOMAIN request :
           request[i].type = its[PositionOf(its, request[i].key)].type
      /\ \A i, j \in DOMAIN request :
           i < j => PositionOf(its, request[i].key) < PositionOf(its, request[j].key)

\* C12: the step that hands a request list to getItemsAsZip hands one entry
\* {key, type} for each selected key of the item list, in item-list order, typed
\* as the item is, without duplicates and without keys that are not selected; the
\* step that completes the export reports the length of that list.
C12_ExportListIsTheSelection ==
  [][ /\ (exportRequest = NoExport /\ exportRequest' # NoExport)
           => IsExportListOf(exportRequest', items, selectedKeys)
      /\ exportEvent'.kind = "completed"
           => exportEvent'.itemCount = Len(exportRequest) ]_vars

\* C12 witness: an export of a folder and a file is outstanding
C12_Witness ==
  /\ isDownloading
  /\ Len(exportRequest) = 2
  /\ exportRequest[1].type = "folder"
  /\ exportRequest[2].type = "file"

\* C13 (the claim as stated): a call of the handler whose request list is empty,
\* and an export whose getItemsAsZip call fails, both report the failure; neither
\* clicks the link nor reports a completion.
C13_EmptyOrFailedExportFails ==
  [][ ((handleDownloadSelected /\ ItemsToDownload(items, selectedKeys) = <<>>)
         \/ ExportFails)
        => (exportEvent'.kind = "failed" /\ ~exportEvent'.delivered) ]_vars

\* C13 (amended): an export whose getItemsAsZip call fails reports the failure,
\* without a click on the link or a completion, and keeps the selection; a call of
\* the handler with nothing selected returns without reporting anything and
\* without a request; a request list that is handed over is never empty.
C13_FailedExportFailsEmptyReturns ==
  [][ /\ ExportFails
           => /\ exportEvent'.kind = "failed"
              /\ ~exportEvent'.delivered
              /\ selectedKeys' = selectedKeys
      /\ (handleDownloadSelected /\ selectedKeys = {})
           => /\ exportEvent'.kind = "returned"
              /\ ~exportEvent'.delivered
              /\ isDownloading' = isDownloading
              /\ exportRequest' = exportRequest
      /\ (handleDownloadSelected /\ selectedKeys # {})
           => (exportEvent'.kind = "requested" /\ Len(exportRequest') > 0) ]_vars

\* C13 witness: an export has just failed, the selection still there
C13_Witness ==
  /\ exportEvent.kind = "failed"
  /\ ~isDownloading
  /\ selectedKeys # {}

\* C14: an outstanding export is answered; the step that answers it, and no other
\* step, reports completed (with the click on the link) or failed (without it),
\* and leaves isDownloading false.
C14_ExportEndsOnce ==
  /\ (exportRequest # NoExport)
       ~> (exportRequest = NoExport /\ ~isDownloading
             /\ exportEvent.kind \in {"completed", "failed"})
  /\ [][ /\ (exportRequest # NoExport /\ exportRequest' # exportRequest)
              => /\ exportRequest' = NoExport
                 /\ ~isDownloading'
                 /\ exportEvent'.kind \in {"completed", "failed"}
         /\ exportEvent'.kind \in {"completed", "failed"}
              => /\ exportRequest # NoExport /\ exportRequest' = NoExport
                 /\ isDownloading /\ ~isDownloading'
                 /\ exportEvent'.delivered <=> (exportEvent'.kind = "completed") ]_vars

\* C14 witness: an export is outstanding while the listing of another folder has
\* replaced the items it was taken from
C14_Witness ==
  /\ isDownloading
  /\ exportRequest # NoExport
  /\ \A i \in DOMAIN exportRequest : exportRequest[i].key \notin KeysOf(items)

\* C15: the step in which a listing fails signals disconnect, takes the failed
\* request off the outstanding ones without issuing another, and leaves items,
\* prefix and selectedKeys as they were; once disconnected no listing is requested.
C15_ListingFailureOnlyDisconnects ==
  [][ /\ \A p \in BagToSet(inflight) :
           ListingFails(p)
             => /\ connected /\ ~connected'
                /\ inflight' = inflight (-) SetToBag({p})
                /\ items' = items
                /\ prefix' = prefix
                /\ selectedKeys' = selectedKeys
      /\ ~connected => (connected' = connected /\ inflight' = inflight) ]_vars

\* C15 witness: disconnected by a failed listing of a folder below the root, with
\* the items of the folder before still stored and some of them selected
C15_Witness ==
  /\ ~connected
  /\ prefix # rootFolder
  /\ itemsPrefix # prefix
  /\ items # <<>>
  /\ selectedKeys # {}

C17_ItemChangeResetsPage ==
  [][ items' # items => currentPage' = 1 ]_vars

\* what a click on the row of a folder is to do
EnterFolderEffect(item) ==
  /\ prefix' = item.Prefix
  /\ searchQuery' = <<>>
  /\ currentPage' = 1
  /\ isLoading'
  /\ inflight' = inflight (+) SetToBag({item.Prefix})

\* the folders among the rows of the table
VisibleFolders == {item \in VisibleRows : item.type = "folder"}

\* C18 (the claim as stated): while the table is shown, a click on any folder row
\* sets prefix to the folder's prefix, clears the search, goes to page 1 and
\* starts the listing of the folder, whatever is selected.
C18_EveryShownFolderOpens ==
  (connected /\ ~isLoading)
    => \A item \in VisibleFolders :
         ENABLED (handleItemClick(item) /\ EnterFolderEffect(item))

\* what a click on the row of the folder that prefix already names does: no
\* listing is requested, and the page changes only if a search is cleared
SameFolderEffect ==
  /\ prefix' = prefix
  /\ searchQuery' = <<>>
  /\ currentPage' = (IF searchQuery = <<>> THEN currentPage ELSE 1)
  /\ isLoading' = isLoading
  /\ inflight' = inflight

\* C18 (amended): while the table is shown, a click on a folder row that is not
\* selected sets prefix to the folder's prefix and clears the search; if the
\* folder is not the one prefix names already, it also goes to page 1 and starts
\* the listing of the folder. A click on a selected folder row does not navigate.
C18_UnselectedFolderOpens ==
  (connected /\ ~isLoading)
    => \A item \in VisibleFolders :
         IF item.Prefix \in selectedKeys
         THEN ~ENABLED handleItemClick(item)
         ELSE /\ ENABLED handleItemClick(item)
              /\ ~ENABLED ( /\ handleItemClick(item)
                            /\ ~(IF item.Prefix # prefix
                                 THEN EnterFolderEffect(item)
                                 ELSE SameFolderEffect) )

\* C18 witness: the table shows a selected folder next to one that is not
C18_Witness ==
  /\ connected
  /\ ~isLoading
  /\ \E item \in VisibleFolders : item.Prefix \in selectedKeys
  /\ \E item \in VisibleFolders : item.Prefix \notin selectedKeys /\ item.Prefix # prefix

\* C19 (the claim as stated): a step that changes prefix ends with an empty
\* selection, so that no state holds keys selected in the folder before.
C19_NavigationEmptiesSelection ==
  [][ prefix' # prefix => selectedKeys' = {} ]_vars

\* C20 (the claim as stated): for every breadcrumb index i, fullPath(i) is
\* rootFolder followed by the first i segments, each with its "/"; it starts with
\* rootFolder and is a string prefix of prefix; the last index gives prefix.
C20_BreadcrumbTargets ==
  LET last == Len(breadcrumbParts) - 1
  IN  /\ \A i \in 0..last :
           /\ StartsWith(fullPath(i), rootFolder)
           /\ StartsWith(prefix, fullPath(i))
      /\ fullPath(0) = rootFolder
      /\ fullPath(last) = prefix

C22_SelectionIsSticky ==
  [][ (searchQuery' # searchQuery \/ currentPage' # currentPage
         \/ itemsPerPage' # itemsPerPage)
        => selectedKeys' = selectedKeys ]_vars

\* C22 witness: in the folder whose listing is shown, a selected key is filtered
\* out by the search and another is on a page that is not shown
C22_Witness ==
  /\ connected
  /\ itemsPrefix = prefix
  /\ searchQuery # <<>>
  /\ selectedKeys \ KeysOf(filteredItems) # {}
  /\ (selectedKeys \cap KeysOf(filteredItems)) \ KeysOf(paginatedItems) # {}

\* the position of the object with key k in the Contents of a response
ContentPosition(response, k) ==
  CHOOSE i \in DOMAIN response.Contents : response.Contents[i].Key = k

\* its holds the folders of the response first, in the order of the response, and
\* after them files only, in the order of the response
FoldersThenFilesInOrder(its, response) ==
  LET nf == Len(response.CommonPrefixes)
  IN  /\ Len(its) >= nf
      /\ \A i \in 1..nf :
           /\ its[i].type = "folder"
           /\ its[i].Prefix = response.CommonPrefixes[i].Prefix
      /\ \A i \in (nf + 1)..Len(its) : its[i].type = "file"
      /\ \A i, j \in (nf + 1)..Len(its) :
           i < j => ContentPosition(response, its[i].Key)
                      < ContentPosition(response, its[j].Key)

\* C23: the step in which the listing of p succeeds stores the folders of the
\* response first, in the order of the response, then the kept files in the order
\* of the response.
C23_FoldersFirstInStoreOrder ==
  [][ \A p \in BagToSet(inflight) :
        ListingSucceeds(p)
          => FoldersThenFilesInOrder(items', ListObjectsV2(bucket, p)) ]_vars

\* C23 witness: the stored listing of "d/x/" holds two folders and then a file
C23_Witness ==
  /\ itemsPrefix = <<"d", "/", "x", "/">>
  /\ Len(items) = 3
  /\ items[2].type = "folder"
  /\ items[3].type = "file"

\* C24: rootFolder is empty exactly when config.folder is; a config.folder that
\* ends with "/" is rootFolder as it stands, any other gets one "/" appended;
\* normalising rootFolder again changes nothing; until the first listing has
\* arrived prefix is rootFolder.
C24_RootFolderNormalised ==
  /\ (rootFolder = <<>>) <=> (configFolder = <<>>)
  /\ EndsWith(configFolder, <<SLASH>>) => rootFolder = configFolder
  /\ (configFolder # <<>> /\ ~EndsWith(configFolder, <<SLASH>>))
       => rootFolder = Append(configFolder, SLASH)
  /\ RootFolder(rootFolder) = rootFolder
  /\ itemsPrefix = NoListing => prefix = rootFolder

\* C24 witness: the session was opened on "d/", which ends with "/" already, and
\* the listing of "d/" itself has arrived
C24_Witness ==
  /\ configFolder = <<"d", "/">>
  /\ prefix = <<"d", "/">>
  /\ itemsPrefix = prefix
  /\ Len(items) = 13

\* C25: every selected key is the key or prefix of an item of the stored list.
C25_SelectionWithinItems == selectedKeys \subseteq KeysOf(items)

\* C25 witness: keys are selected while an export and a listing are outstanding
C25_Witness ==
  /\ connected
  /\ selectedKeys # {}
  /\ isDownloading
  /\ inflight # EmptyBag

\* C26 (the claim as stated): while a listing is outstanding isLoading is true.
C26_LoadingWhileOutstanding ==
  (connected /\ inflight # EmptyBag) => isLoading

\* the keys of the export request that is outstanding
RequestedKeys == {exportRequest[i].key : i \in DOMAIN exportRequest}

\* C27 (the claim as stated): a step that completes an export ends with an empty
\* selection; after a step that fails an export the selection is the one before
\* it and still holds the keys the export was requested for.
C27_FailedExportKeepsRequestedKeys ==
  [][ /\ ExportCompletes => selectedKeys' = {}
      /\ ExportFails => (selectedKeys' = selectedKeys
                           /\ RequestedKeys \subseteq selectedKeys') ]_vars

\* C27 (amended): a step that completes an export ends with an empty selection; a
\* step that fails an export leaves the selection as it was just before the step.
C27_FailedExportKeepsSelection ==
  [][ /\ ExportCompletes => selectedKeys' = {}
      /\ ExportFails => selectedKeys' = selectedKeys ]_vars

\* C27 witness: an export has just failed and two keys or more are selected
C27_Witness ==
  /\ exportEvent.kind = "failed"
  /\ Cardinality(selectedKeys) >= 2
  /\ items # <<>>

\* C28 (the claim as stated, its last clause): a step other than logout removes
\* the stored session only when its username and password match no user of the
\* persisted user list; a stored session that matches one is kept so that the
\* user can be authenticated from it.
C28_MatchingSessionIsKept ==
  [][ (storedUser # Null /\ storedUser' = Null /\ ~logout)
        => ~(/\ storedUsers' # Null
             /\ ValidateUser(storedUsers'[1], storedUser[1].username,
                             storedUser[1].password)) ]_vars

\* the bucket is one the claim lets the logged-in user see
OwnedOrLegacy(b) ==
  /\ user # Null
  /\ \/ b.owner = Some(user[1].username)
     \/ b.owner = Null /\ user[1].username = "admin"

\* C29 (the claim as stated): the list exposed to the session holds only buckets
\* whose owner is the logged-in user, and buckets without an owner only for
\* admin; it is empty when nobody is logged in; the selected bucket is null or a
\* bucket of this list.
C29_OnlyOwnBucketsExposed ==
  /\ \A i \in DOMAIN userBuckets : OwnedOrLegacy(userBuckets[i])
  /\ user = Null => userBuckets = <<>>
  /\ selectedBucket # Null => selectedBucket[1].id \in BucketIdsOf(userBuckets)

\* C30: once the user list is loaded it holds a user named admin and no two of
\* its users share a username; deleteUser("admin") and addUser of a name that is
\* taken leave the list as it was.
C30_AdminKeptNamesUnique ==
  /\ [](usersIsLoaded =>
          /\ HasUser(users, "admin")
          /\ \A i, j \in DOMAIN users :
               users[i].username = users[j].username => i = j)
  /\ [][ /\ deleteUser("admin") => users' = users
         /\ \A username \in Usernames : \A pass \in Passwords :
              (addUser(username, pass) /\ HasUser(users, username))
                => users' = users ]_vars

\* C30 witness: the list is full after users were added, the password of admin
\* was changed, and bob, who was in the stored list, was deleted and added again
C30_Witness ==
  /\ commit = "ready"
  /\ Len(users) = MaxUsers
  /\ \E i \in DOMAIN users : users[i].username = "admin" /\ users[i].password = "pw"
  /\ users[Len(users)].username = "bob"
  /\ storedUsers = Some(users)

====
